---- MODULE Spec2Model ----
(***************************************************************************)
(* plex-webhook: webhook intake, the Celery enrichment task, the IMDb      *)
(* keyword fetcher (lru_cache + rate window) and the Plex label writer.    *)
(*                                                                         *)
(* Python values are records [type, val]; strings are sequences of        *)
(* one-character strings, so that validation is computed character by     *)
(* character. Time is kept relative: the rate window stores the age of    *)
(* each recorded call (now - call) and a retry stores the remaining       *)
(* countdown, so the clock itself needs no unbounded counter.             *)
(***************************************************************************)
EXTENDS Integers, Sequences, FiniteSets, TLC

\* ------------------------------------------------------------------ bounds
MaxJobs == 1
NumProcs == 1
MaxTagLen == 51
MaxCalls == 2
MaxIdDigits == 5

\* ------------------------------------------------------- program constants
max_retries == 3
default_retry_delay == 300
LabelLimit == 50
RATE_LIMIT_CALLS == 10
RATE_LIMIT_PERIOD == 60
RateLimitPause == 2
CacheMaxSize == 1000

\* ----------------------------------------------------------------- strings
DecDigits == {"0", "1", "2", "3", "4", "5", "6", "7", "8", "9"}
\* "sup2" stands for U+00B2, a character for which str.isdigit() is True
PyDigits == DecDigits \cup {"sup2"}
DigitChar == <<"0", "1", "2", "3", "4", "5", "6", "7", "8", "9">>

RECURSIVE DecStr(_)
DecStr(i) == IF i < 10 THEN <<DigitChar[i + 1]>>
             ELSE DecStr(i \div 10) \o <<DigitChar[(i % 10) + 1]>>

isdigit(s) == Len(s) > 0 /\ \A i \in 1..Len(s) : s[i] \in PyDigits

startswith(s, p) ==
    Len(s) >= Len(p) /\ \A i \in 1..Len(p) : s[i] = p[i]

Min(a, b) == IF a < b THEN a ELSE b

Take(s, n) == SubSeq(s, 1, Min(n, Len(s)))

\* ----------------------------------------------------------- Python values
PNone == [type |-> "none", val |-> <<>>]
PStr(s) == [type |-> "str", val |-> s]
\* an int is kept by its decimal string, which is all the code uses
PInt(n) == [type |-> "int", val |-> DecStr(n)]
PList(xs) == [type |-> "list", val |-> xs]
\* a dict is a sequence of [k, v] entries with distinct keys
PDict(kvs) == [type |-> "dict", val |-> kvs]

Truthy(v) ==
    CASE v.type = "none" -> FALSE
      [] v.type = "int" -> v.val # <<"0">>
      [] OTHER -> Len(v.val) > 0

str(v) ==
    CASE v.type \in {"str", "int"} -> v.val
      [] v.type = "none" -> <<"N", "o", "n", "e">>
      [] OTHER -> <<"<", v.type, ">">>

HasKey(d, k) == \E i \in 1..Len(d.val) : d.val[i].k = k

DictGet(d, k, default) ==
    IF HasKey(d, k)
    THEN (d.val[CHOOSE i \in 1..Len(d.val) : d.val[i].k = k]).v
    ELSE default

\* ------------------------------------------------------------- validators
TT == <<"t", "t">>
IMDB_PREFIX == <<"i", "m", "d", "b", ":", "/", "/">>

\* validate_imdb_id raises AttributeError for a truthy value without
\* .startswith (anything but a str)
validate_imdb_id_raises(imdb_id) == Truthy(imdb_id) /\ imdb_id.type # "str"

validate_imdb_id(imdb_id) ==
    /\ Truthy(imdb_id)
    /\ imdb_id.type = "str"
    /\ startswith(imdb_id.val, TT)
    /\ Len(imdb_id.val) >= 7
    /\ isdigit(SubSeq(imdb_id.val, 3, Len(imdb_id.val)))

validate_rating_key(rating_key) == Truthy(rating_key) /\ isdigit(str(rating_key))

\* ------------------------------------------------------------------- tags
\* the i-th keyword of a page is "k<i>"; Tags(n) is a page with n keywords
Tag(i) == <<"k">> \o DecStr(i)
Tags(n) == [i \in 1..n |-> Tag(i)]
TagLens == {0, 2, MaxTagLen}

\* what the content source answers to one GET
Upstream(kind, kws) == [kind |-> kind, keywords |-> kws]
FailKinds == {"timeout", "connerr", "non2xx", "noscript", "emptyscript",
              "badjson", "nopath", "badshape"}
\* the kinds for which requests.get or raise_for_status raises
NoResponse == {"timeout", "connerr", "non2xx"}
FetchOutcomes ==
    {Upstream(k, <<>>) : k \in FailKinds} \cup
    {Upstream("ok", Tags(n)) : n \in TagLens}

\* what the media server answers to one PUT
PutOutcomes == {"ok2xx", "timeout", "connerr", "non2xx"}

\* ------------------------------------------------------------ rate window
Age(lc, d) == [i \in 1..Len(lc) |-> Min(lc[i] + d, RATE_LIMIT_PERIOD)]

\* call > now - RATE_LIMIT_PERIOD, with call kept as its age now - call
Recent(a) == a < RATE_LIMIT_PERIOD
Pruned(lc) == SelectSeq(lc, Recent)

is_rate_limited(lc) == Len(Pruned(lc)) >= RATE_LIMIT_CALLS

\* ---------------------------------------------------------------- fetcher
\* failure: the call ran into one of the failures the body handles or lets
\* through (as opposed to an extraction that went well, a rejected id, or a
\* value served from the cache)
FetchResult(raised, val, http, paused, failure, lc) ==
    [raised |-> raised, val |-> val, http |-> http, paused |-> paused,
     failure |-> failure, last_calls |-> lc]

\* Record that leaves the window as it is
Record_Nothing(lc) == lc

\* last_calls.append(time.time()): the call just made has age 0
Record(lc) == Append(lc, 0)

\* get_imdb_keywords_body that turns the call down when the window is full
get_imdb_keywords_body_HardReject(lc, imdb_id, o) ==
    IF validate_imdb_id_raises(imdb_id)
    THEN FetchResult(TRUE, <<>>, FALSE, FALSE, FALSE, lc)
    ELSE IF ~validate_imdb_id(imdb_id)
    THEN FetchResult(FALSE, <<>>, FALSE, FALSE, FALSE, lc)
    ELSE IF is_rate_limited(lc)
    THEN FetchResult(FALSE, <<>>, FALSE, FALSE, TRUE, Pruned(lc))
    ELSE
      LET waited == Pruned(lc)
          recorded == Record(waited)
      IN CASE o.kind \in {"timeout", "connerr", "non2xx"} ->
                FetchResult(FALSE, <<>>, TRUE, FALSE, TRUE, waited)
           [] o.kind \in {"noscript", "badjson", "nopath"} ->
                FetchResult(FALSE, <<>>, TRUE, FALSE, TRUE, recorded)
           [] o.kind \in {"emptyscript", "badshape"} ->
                FetchResult(TRUE, <<>>, TRUE, FALSE, TRUE, recorded)
           [] OTHER ->
                FetchResult(FALSE, o.keywords, TRUE, FALSE, FALSE, recorded)

\* the body of get_imdb_keywords, below the lru_cache wrapper
get_imdb_keywords_body(lc, imdb_id, o) ==
    IF validate_imdb_id_raises(imdb_id)
    THEN FetchResult(TRUE, <<>>, FALSE, FALSE, FALSE, lc)
    ELSE IF ~validate_imdb_id(imdb_id)
    THEN FetchResult(FALSE, <<>>, FALSE, FALSE, FALSE, lc)
    ELSE
      LET limited == is_rate_limited(lc)
          waited == IF limited THEN Age(Pruned(lc), RateLimitPause)
                    ELSE Pruned(lc)
          recorded == Record(waited)
      IN CASE o.kind \in {"timeout", "connerr", "non2xx"} ->
                FetchResult(FALSE, <<>>, TRUE, limited, TRUE, waited)
           [] o.kind \in {"noscript", "badjson", "nopath"} ->
                FetchResult(FALSE, <<>>, TRUE, limited, TRUE, recorded)
           [] o.kind \in {"emptyscript", "badshape"} ->
                FetchResult(TRUE, <<>>, TRUE, limited, TRUE, recorded)
           [] OTHER ->
                FetchResult(FALSE, o.keywords, TRUE, limited, FALSE, recorded)

CacheHas(c, key) == \E i \in 1..Len(c) : c[i].key = key
CacheIdx(c, key) == CHOOSE i \in 1..Len(c) : c[i].key = key
CacheDrop(c, i) == SubSeq(c, 1, i - 1) \o SubSeq(c, i + 1, Len(c))
CachePut(c, key, val) ==
    LET full == Append(c, [key |-> key, value |-> val])
    IN IF Len(full) > CacheMaxSize THEN Tail(full) ELSE full

Hashable(v) == v.type \notin {"list", "dict"}

\* get_imdb_keywords without the lru_cache
get_imdb_keywords_uncached(c, lc, imdb_id, o) ==
    IF ~Hashable(imdb_id)
    THEN [r |-> FetchResult(TRUE, <<>>, FALSE, FALSE, FALSE, lc), cache |-> c]
    ELSE [r |-> get_imdb_keywords_body(lc, imdb_id, o), cache |-> c]

\* get_imdb_keywords as callers see it: lru_cache(maxsize=1000) around the
\* body; the result carries the new cache and the new rate window
get_imdb_keywords(c, lc, imdb_id, o) ==
    IF ~Hashable(imdb_id)
    THEN [r |-> FetchResult(TRUE, <<>>, FALSE, FALSE, FALSE, lc), cache |-> c]
    ELSE IF CacheHas(c, imdb_id)
    THEN LET i == CacheIdx(c, imdb_id)
         IN [r |-> FetchResult(FALSE, c[i].value, FALSE, FALSE, FALSE, lc),
             cache |-> Append(CacheDrop(c, i), c[i])]
    ELSE LET b == get_imdb_keywords_body(lc, imdb_id, o)
         IN [r |-> b,
             cache |-> IF b.raised THEN c ELSE CachePut(c, imdb_id, b.val)]

\* ----------------------------------------------------------------- writer
IsSpace(ch) == ch = " "

RECURSIVE lstrip(_)
lstrip(s) == IF Len(s) > 0 /\ IsSpace(s[1]) THEN lstrip(Tail(s)) ELSE s

RECURSIVE rstrip(_)
rstrip(s) == IF Len(s) > 0 /\ IsSpace(s[Len(s)])
             THEN rstrip(SubSeq(s, 1, Len(s) - 1)) ELSE s

strip(s) == rstrip(lstrip(s))

\* if label and isinstance(label, (str, int, float))
KeptLabel(label) == Truthy(label) /\ label.type \in {"str", "int", "float"}

\* [str(label).strip() for label in labels if label and isinstance(...)]:
\* the filter looks at the label as given, the strip comes after it
NormaliseLabels(labels) ==
    CHOOSE norm \in {[i \in 1..Len(kept) |-> strip(str(kept[i]))] :
                        kept \in {SelectSeq(labels, KeptLabel)}} : TRUE

WriteResult(ok, put, sent) == [ok |-> ok, put |-> put, sent |-> sent]

\* PutLabels that takes a timeout for a success
PutLabels_TimeoutIsSuccess(labels, o) ==
    IF Len(labels) = 0 THEN WriteResult(FALSE, FALSE, <<>>)
    ELSE WriteResult(o \in {"ok2xx", "timeout"}, TRUE, labels)

\* the PUT of the normalised labels, if any is left
PutLabels(labels, o) ==
    IF Len(labels) = 0 THEN WriteResult(FALSE, FALSE, <<>>)
    ELSE WriteResult(o = "ok2xx", TRUE, labels)

\* labels is the Python value the caller passes
update_plex_labels(rating_key, labels, o) ==
    IF ~validate_rating_key(rating_key) THEN WriteResult(FALSE, FALSE, <<>>)
    ELSE IF ~Truthy(labels) \/ labels.type # "list"
    THEN WriteResult(FALSE, FALSE, <<>>)
    ELSE PutLabels(NormaliseLabels(labels.val), o)

\* the list of strings the task holds, as the Python value it passes on
PyTags(tags) == PList([i \in 1..Len(tags) |-> PStr(tags[i])])

\* ----------------------------------------------------------------- intake
LIBRARY_NEW == <<"l", "i", "b", "r", "a", "r", "y", ".", "n", "e", "w">>
LIBRARY_UPDATE ==
    <<"l", "i", "b", "r", "a", "r", "y", ".", "u", "p", "d", "a", "t", "e">>

\* s.split("imdb://")[1] for a string that starts with the prefix: the text
\* between the leading prefix and the next occurrence of it
RECURSIVE UpToPrefix(_)
UpToPrefix(s) ==
    IF Len(s) = 0 \/ startswith(s, IMDB_PREFIX) THEN <<>>
    ELSE <<s[1]>> \o UpToPrefix(Tail(s))

SplitImdb(s) == UpToPrefix(SubSeq(s, Len(IMDB_PREFIX) + 1, Len(s)))

\* the outcome of the try block of extract_imdb_id when it raised
Raised == [type |-> "raised", val |-> <<>>]

\* the loop of extract_imdb_id over the Guid entries from index i on; an
\* entry whose id has no .startswith raises
RECURSIVE ExtractLoop(_, _)
ExtractLoop(entries, i) ==
    IF i > Len(entries) THEN PNone
    ELSE LET guid == entries[i]
         IN IF guid.type # "dict" THEN ExtractLoop(entries, i + 1)
            ELSE LET id == DictGet(guid, "id", PStr(<<>>))
                 IN IF id.type # "str" THEN Raised
                    ELSE IF ~startswith(id.val, IMDB_PREFIX)
                    THEN ExtractLoop(entries, i + 1)
                    ELSE IF validate_imdb_id(PStr(SplitImdb(id.val)))
                    THEN PStr(SplitImdb(id.val))
                    ELSE ExtractLoop(entries, i + 1)

\* ExtractTry that looks at the first Guid entry only
ExtractTry_FirstEntryOnly(metadata) ==
    IF metadata.type # "dict" THEN Raised
    ELSE LET guids == DictGet(metadata, "Guid", PList(<<>>))
         IN CASE guids.type = "list" -> ExtractLoop(Take(guids.val, 1), 1)
              [] guids.type \in {"str", "dict"} -> PNone
              [] OTHER -> Raised

\* the try block: metadata without .get raises, a Guid that cannot be
\* iterated raises, a str or a dict is iterated and holds no dict
ExtractTry(metadata) ==
    IF metadata.type # "dict" THEN Raised
    ELSE LET guids == DictGet(metadata, "Guid", PList(<<>>))
         IN CASE guids.type = "list" -> ExtractLoop(guids.val, 1)
              [] guids.type \in {"str", "dict"} -> PNone
              [] OTHER -> Raised

\* the except clause logs and falls through to return None
extract_imdb_id(metadata) ==
    IF ExtractTry(metadata) = Raised THEN PNone ELSE ExtractTry(metadata)

HarmfulChars == {"<", ">", "'", "\"", ";"}
MaxSanitised == 1000
NotHarmful(ch) == ch \notin HarmfulChars

\* sanitise_string that strips after the characters are removed
sanitise_string_StripsLast(value) ==
    IF value.type = "none" THEN <<>>
    ELSE Take(strip(SelectSeq(str(value), NotHarmful)), MaxSanitised)

sanitise_string(value) ==
    IF value.type = "none" THEN <<>>
    ELSE Take(SelectSeq(strip(str(value)), NotHarmful), MaxSanitised)

\* an inbound HTTP request: the webhook carries the form field `payload`
\* (present or not, parseable or not, and then its parsed value); the manual
\* trigger carries the rating key of the URL and a JSON body
WebhookReq(has, parses, data) ==
    [route |-> "webhook", has_payload |-> has, parses |-> parses,
     data |-> data, is_json |-> FALSE, url_key |-> <<>>]
ManualReq(is_json, parses, data, key) ==
    [route |-> "manual", has_payload |-> FALSE, parses |-> parses,
     data |-> data, is_json |-> is_json, url_key |-> key]
NoReq == WebhookReq(FALSE, FALSE, PNone)

\* a message is a format text and the values put into it
Msg(text, args) == [text |-> text, args |-> args]

\* a log event: its name, the title it carries and the error text it carries
Ev(event, title, error) == [event |-> event, title |-> title, error |-> error]

Response(status, message, enq, imdb_id, rating_key, title) ==
    [status |-> status, message |-> message, enqueue |-> enq,
     imdb_id |-> imdb_id, rating_key |-> rating_key, title |-> title,
     events |-> <<>>]
ErrorResponse(message, status) ==
    Response(status, Msg(message, <<>>), FALSE, PNone, PNone, <<>>)
\* the log events the handler emitted on its way to the response
WithLog(r, events) == [r EXCEPT !.events = events]

\* async_update_labels.delay() returns, or raises with a text when the
\* broker cannot be reached
BrokerUp == "up"

\* the title as the payload carries it
RawTitle(data) ==
    LET metadata == DictGet(data, "Metadata", PNone)
        title == IF metadata.type = "dict"
                 THEN DictGet(metadata, "title", PNone) ELSE PNone
    IN IF title.type = "str" THEN title.val ELSE <<>>

\* plex_webhook without the rating-key format check
plex_webhook_AnyRatingKey(req, broker) ==
    IF ~req.has_payload
    THEN WithLog(ErrorResponse("Missing payload", 400),
                 <<Ev("error", <<>>, "No payload in request")>>)
    ELSE IF ~req.parses
    THEN WithLog(ErrorResponse("Invalid JSON payload", 400),
                 <<Ev("error", <<>>, "JSONDecodeError")>>)
    ELSE LET data == req.data IN
    IF ~Truthy(data) \/ data.type # "dict"
    THEN WithLog(ErrorResponse("Empty or invalid payload", 400),
                 <<Ev("error", <<>>, "Empty or invalid payload")>>)
    ELSE LET received == <<Ev("webhook_received", RawTitle(data), "")>>
             event == DictGet(data, "event", PNone) IN
    IF ~(event.type = "str" /\ event.val = LIBRARY_NEW)
    THEN WithLog(ErrorResponse("Invalid or unsupported webhook event", 400),
                 received)
    ELSE LET metadata == DictGet(data, "Metadata", PDict(<<>>))
             imdb_id == extract_imdb_id(metadata)
             extracted ==
                IF ExtractTry(metadata) = Raised
                THEN Append(received,
                            Ev("error", RawTitle(data),
                               "Failed to extract IMDb ID"))
                ELSE received IN
    IF ~Truthy(imdb_id)
    THEN WithLog(ErrorResponse("No valid IMDb ID found", 400), extracted)
    ELSE LET rating_key == DictGet(metadata, "ratingKey", PNone) IN
    IF ~Truthy(rating_key)
    THEN WithLog(ErrorResponse("Missing Plex rating key", 400), extracted)
    ELSE LET title == sanitise_string(DictGet(metadata, "title", PNone))
             year == DictGet(metadata, "year", PNone) IN
    IF broker # BrokerUp
    THEN WithLog(Response(500, Msg("Internal server error: {e}", <<<<broker>>>>),
                          FALSE, PNone, PNone, <<>>),
                 Append(extracted, Ev("error", <<>>, broker)))
    ELSE WithLog(Response(202, Msg("Processing {title} ({year})",
                                   <<title, str(year)>>),
                          TRUE, imdb_id, rating_key, title),
                 Append(extracted, Ev("movie_processing", title, "")))

\* plex_webhook under handle_exceptions
plex_webhook(req, broker) ==
    IF ~req.has_payload
    THEN WithLog(ErrorResponse("Missing payload", 400),
                 <<Ev("error", <<>>, "No payload in request")>>)
    ELSE IF ~req.parses
    THEN WithLog(ErrorResponse("Invalid JSON payload", 400),
                 <<Ev("error", <<>>, "JSONDecodeError")>>)
    ELSE LET data == req.data IN
    IF ~Truthy(data) \/ data.type # "dict"
    THEN WithLog(ErrorResponse("Empty or invalid payload", 400),
                 <<Ev("error", <<>>, "Empty or invalid payload")>>)
    ELSE LET received == <<Ev("webhook_received", RawTitle(data), "")>>
             event == DictGet(data, "event", PNone) IN
    IF ~(event.type = "str" /\ event.val = LIBRARY_NEW)
    THEN WithLog(ErrorResponse("Invalid or unsupported webhook event", 400),
                 received)
    ELSE LET metadata == DictGet(data, "Metadata", PDict(<<>>))
             imdb_id == extract_imdb_id(metadata)
             extracted ==
                IF ExtractTry(metadata) = Raised
                THEN Append(received,
                            Ev("error", RawTitle(data),
                               "Failed to extract IMDb ID"))
                ELSE received IN
    IF ~Truthy(imdb_id)
    THEN WithLog(ErrorResponse("No valid IMDb ID found", 400), extracted)
    ELSE LET rating_key == DictGet(metadata, "ratingKey", PNone) IN
    IF ~Truthy(rating_key)
    THEN WithLog(ErrorResponse("Missing Plex rating key", 400), extracted)
    ELSE IF ~validate_rating_key(rating_key)
    THEN WithLog(ErrorResponse("Invalid rating key format", 400), extracted)
    ELSE LET title == sanitise_string(DictGet(metadata, "title", PNone))
             year == DictGet(metadata, "year", PNone) IN
    IF broker # BrokerUp
    THEN WithLog(Response(500, Msg("Internal server error: {e}", <<<<broker>>>>),
                          FALSE, PNone, PNone, <<>>),
                 Append(extracted, Ev("error", <<>>, broker)))
    ELSE WithLog(Response(202, Msg("Processing {title} ({year})",
                                   <<title, str(year)>>),
                          TRUE, imdb_id, rating_key, title),
                 Append(extracted, Ev("movie_processing", title, "")))

\* update_labels without the IMDb id format check
update_labels_AnyNonEmptyId(req, broker) ==
    IF ~req.is_json
    THEN WithLog(ErrorResponse("Content-Type must be application/json", 415),
                 <<Ev("warning", <<>>, "Missing JSON content type")>>)
    ELSE IF ~req.parses
    THEN WithLog(ErrorResponse("Request processing failed", 400),
                 <<Ev("error", <<>>, "BadRequest")>>)
    ELSE LET data == req.data IN
    IF data.type # "dict"
    THEN WithLog(ErrorResponse("Request body must be a valid JSON object", 400),
                 <<Ev("error", <<>>, "Invalid or missing request body")>>)
    ELSE LET rating_key == PStr(req.url_key) IN
    IF ~validate_rating_key(rating_key)
    THEN ErrorResponse("Invalid rating key format", 400)
    ELSE LET imdb_id == DictGet(data, "imdb_id", PStr(<<>>)) IN
    IF ~Truthy(imdb_id) THEN ErrorResponse("Valid IMDb ID is required", 400)
    ELSE IF broker # BrokerUp
    THEN WithLog(ErrorResponse("Request processing failed", 400),
                 <<Ev("error", <<>>, broker)>>)
    ELSE WithLog(Response(202, Msg("Label update queued", <<>>), TRUE,
                          imdb_id, rating_key, <<>>),
                 <<Ev("manual_label_update", <<>>, "")>>)

\* update_labels under handle_exceptions and validate_json_payload; every
\* exception below validate_json_payload becomes 400
update_labels(req, broker) ==
    IF ~req.is_json
    THEN WithLog(ErrorResponse("Content-Type must be application/json", 415),
                 <<Ev("warning", <<>>, "Missing JSON content type")>>)
    ELSE IF ~req.parses
    THEN WithLog(ErrorResponse("Request processing failed", 400),
                 <<Ev("error", <<>>, "BadRequest")>>)
    ELSE LET data == req.data IN
    IF data.type # "dict"
    THEN WithLog(ErrorResponse("Request body must be a valid JSON object", 400),
                 <<Ev("error", <<>>, "Invalid or missing request body")>>)
    ELSE LET rating_key == PStr(req.url_key) IN
    IF ~validate_rating_key(rating_key)
    THEN ErrorResponse("Invalid rating key format", 400)
    ELSE LET imdb_id == DictGet(data, "imdb_id", PStr(<<>>)) IN
    IF ~Truthy(imdb_id) THEN ErrorResponse("Valid IMDb ID is required", 400)
    ELSE IF validate_imdb_id_raises(imdb_id)
    THEN WithLog(ErrorResponse("Request processing failed", 400),
                 <<Ev("error", <<>>, "AttributeError")>>)
    ELSE IF ~validate_imdb_id(imdb_id)
    THEN WithLog(ErrorResponse("Invalid IMDb ID format", 400),
                 <<Ev("validation_error", <<>>, "Invalid IMDb ID format")>>)
    ELSE IF broker # BrokerUp
    THEN WithLog(ErrorResponse("Request processing failed", 400),
                 <<Ev("error", <<>>, broker)>>)
    ELSE WithLog(Response(202, Msg("Label update queued", <<>>), TRUE,
                          imdb_id, rating_key, <<>>),
                 <<Ev("manual_label_update", <<>>, "")>>)

\* ----------------------------------------------------------------- health
\* what the media server answers to the probe GET /library/sections
ProbeOutcomes == {"ok2xx", "401", "404", "timeout", "connerr", "non2xx"}

\* validate_plex_token that has no message of its own for a 404
validate_plex_token_NoNotFound(o) ==
    CASE o = "ok2xx" ->
           [ok |-> TRUE, message |-> "Connected to Plex server successfully"]
      [] o = "timeout" ->
           [ok |-> FALSE, message |-> "Timeout connecting to Plex server"]
      [] o = "401" -> [ok |-> FALSE, message |-> "Invalid Plex token"]
      [] OTHER ->
           [ok |-> FALSE, message |-> "Failed to connect to Plex server: {e}"]

\* validate_plex_token: (is_valid, message)
validate_plex_token(o) ==
    CASE o = "ok2xx" ->
           [ok |-> TRUE, message |-> "Connected to Plex server successfully"]
      [] o = "timeout" ->
           [ok |-> FALSE, message |-> "Timeout connecting to Plex server"]
      [] o = "401" -> [ok |-> FALSE, message |-> "Invalid Plex token"]
      [] o = "404" -> [ok |-> FALSE, message |-> "Plex server not found"]
      [] OTHER ->
           [ok |-> FALSE, message |-> "Failed to connect to Plex server: {e}"]

\* what celery.control.ping does: it returns, or raises with a text
PingOk == "ok"
Faults == {"Connection refused", "Timeout after 1s"}
Brokers == {BrokerUp} \cup Faults

\* health_check that reports plex from the probe only when the ping went well
health_check_StopsAtPing(ping, probe) ==
    LET unknown == [celery |-> "unknown", plex |-> "unknown"]
        pinged == IF ping = PingOk
                  THEN [services |-> [unknown EXCEPT !.celery = "connected"],
                        celery_message |-> "Connected to Redis successfully",
                        overall |-> "healthy"]
                  ELSE [services |-> [unknown EXCEPT !.celery = "error"],
                        celery_message |-> ping,
                        overall |-> "unhealthy"]
        p == validate_plex_token(probe)
        services == IF ping # PingOk THEN pinged.services
                    ELSE [pinged.services EXCEPT
                            !.plex = IF p.ok THEN "connected" ELSE "error"]
        overall == IF p.ok THEN pinged.overall ELSE "unhealthy"
    IN [made |-> TRUE, ping |-> ping, probe |-> probe,
        services |-> services,
        celery_message |-> pinged.celery_message,
        plex_message |-> p.message,
        overall |-> overall,
        status |-> IF overall = "healthy" THEN "success" ELSE "error",
        message |-> IF overall = "healthy" THEN "All services operational"
                    ELSE "One or more services are experiencing issues",
        http |-> IF overall = "healthy" THEN 200 ELSE 500]

\* health_check; the route has no handle_exceptions around it
health_check(ping, probe) ==
    LET unknown == [celery |-> "unknown", plex |-> "unknown"]
        pinged == IF ping = PingOk
                  THEN [services |-> [unknown EXCEPT !.celery = "connected"],
                        celery_message |-> "Connected to Redis successfully",
                        overall |-> "healthy"]
                  ELSE [services |-> [unknown EXCEPT !.celery = "error"],
                        celery_message |-> ping,
                        overall |-> "unhealthy"]
        p == validate_plex_token(probe)
        services == [pinged.services EXCEPT
                        !.plex = IF p.ok THEN "connected" ELSE "error"]
        overall == IF p.ok THEN pinged.overall ELSE "unhealthy"
    IN [made |-> TRUE, ping |-> ping, probe |-> probe,
        services |-> services,
        celery_message |-> pinged.celery_message,
        plex_message |-> p.message,
        overall |-> overall,
        status |-> IF overall = "healthy" THEN "success" ELSE "error",
        message |-> IF overall = "healthy" THEN "All services operational"
                    ELSE "One or more services are experiencing issues",
        http |-> IF overall = "healthy" THEN 200 ELSE 500]

NoHealth ==
    [made |-> FALSE, ping |-> PingOk, probe |-> "ok2xx",
     services |-> [celery |-> "unknown", plex |-> "unknown"],
     celery_message |-> "", plex_message |-> "", overall |-> "healthy",
     status |-> "", message |-> "", http |-> 0]

\* ------------------------------------------------------------------ state
VARIABLES
    jobs,        \* the messages of the `labels` queue, by task id
    cache,       \* per worker process: the lru_cache of get_imdb_keywords
    last_calls,  \* per worker process: the rate window (ages of the calls)
    call,        \* what the last Fetcher call did, and in which process
    plex,        \* labels on the media server, by item
    lastReq,     \* the last HTTP request handled
    resp,        \* and the response it got
    ncalls,      \* number of direct Fetcher calls made
    wcall,       \* what the last direct Label Writer call did
    health,      \* what the last health check answered
    pcall        \* the last direct call of a validator or of sanitise_string

vars == <<jobs, cache, last_calls, call, plex, lastReq, resp, ncalls, wcall,
         health, pcall>>

Procs == 1..NumProcs

NoCall == [made |-> FALSE, proc |-> 0, id |-> PNone,
           raised |-> FALSE, val |-> <<>>, http |-> FALSE, paused |-> FALSE,
           failure |-> FALSE, answer |-> "none"]

NoPut == [made |-> FALSE, rating_key |-> PNone, labels |-> PNone,
          outcome |-> "none", ok |-> FALSE, put |-> FALSE, sent |-> <<>>]

NoPure == [fn |-> "none", arg |-> PNone, ok |-> FALSE, text |-> <<>>]

NoResult == [status |-> "none", count |-> 0, labels |-> <<>>]

\* NewJob for a task that is run inside the request instead of queued
NewJob_Eager(imdb_id, rating_key) ==
    [imdb_id |-> imdb_id, rating_key |-> rating_key, state |-> "Running",
     retries |-> 0, pc |-> "started", proc |-> 1, countdown |-> 0,
     fetched |-> <<>>, passed |-> <<>>, wrote |-> "none", sent |-> <<>>,
     log |-> <<<<"task_started", 1>>>>,
     result |-> NoResult]

\* the message .delay(imdb_id, rating_key) puts on the queue
NewJob(imdb_id, rating_key) ==
    [imdb_id |-> imdb_id, rating_key |-> rating_key, state |-> "Queued",
     retries |-> 0, pc |-> "idle", proc |-> 0, countdown |-> 0,
     fetched |-> <<>>, passed |-> <<>>, wrote |-> "none", sent |-> <<>>,
     log |-> <<>>,
     result |-> NoResult]

NoResp == [status |-> 0, message |-> Msg("", <<>>), enqueue |-> FALSE,
           imdb_id |-> PNone, rating_key |-> PNone, title |-> <<>>,
           events |-> <<>>, task_id |-> 0]

Init ==
    /\ jobs = <<>>
    /\ cache = [p \in Procs |-> <<>>]
    /\ last_calls = [p \in Procs |-> <<>>]
    /\ call = NoCall
    /\ plex = <<>>
    /\ lastReq = NoReq
    /\ resp = NoResp
    /\ ncalls = 0
    /\ wcall = NoPut
    /\ health = NoHealth
    /\ pcall = NoPure

\* ------------------------------------------------------------------- time
Dec(n, d) == IF n > d THEN n - d ELSE 0

\* d seconds pass: every recorded call gets older, every countdown shorter
AgeJobs(js, d) ==
    [j \in 1..Len(js) |-> [js[j] EXCEPT !.countdown = Dec(@, d)]]
AgeWindows(w, d) == [p \in DOMAIN w |-> Age(w[p], d)]

Tick(steps) ==
    /\ \E d \in steps :
          /\ jobs' = AgeJobs(jobs, d)
          /\ last_calls' = AgeWindows(last_calls, d)
    /\ UNCHANGED <<cache, call, plex, lastReq, resp, ncalls, wcall, health,
                   pcall>>

\* ---------------------------------------------------------- HTTP handlers
Handle(req, r) ==
    /\ lastReq' = req
    /\ IF r.enqueue
       THEN /\ jobs' = Append(jobs, NewJob(r.imdb_id, r.rating_key))
            /\ resp' = [status |-> r.status, message |-> r.message,
                        enqueue |-> r.enqueue, imdb_id |-> r.imdb_id,
                        rating_key |-> r.rating_key, title |-> r.title,
                        events |-> r.events, task_id |-> Len(jobs) + 1]
       ELSE /\ jobs' = jobs
            /\ resp' = [status |-> r.status, message |-> r.message,
                        enqueue |-> r.enqueue, imdb_id |-> r.imdb_id,
                        rating_key |-> r.rating_key, title |-> r.title,
                        events |-> r.events, task_id |-> 0]
    /\ UNCHANGED <<cache, last_calls, call, plex, ncalls, wcall, health,
                   pcall>>

Health ==
    /\ \E ping \in {PingOk} \cup Faults, probe \in ProbeOutcomes :
          health' = health_check(ping, probe)
    /\ UNCHANGED <<jobs, cache, last_calls, call, plex, lastReq, resp, ncalls,
                   wcall, pcall>>

Webhook(reqs, brokers) ==
    /\ Len(jobs) < MaxJobs
    /\ \E req \in reqs, broker \in brokers :
          Handle(req, plex_webhook(req, broker))

Manual(reqs, brokers) ==
    /\ Len(jobs) < MaxJobs
    /\ \E req \in reqs, broker \in brokers :
          Handle(req, update_labels(req, broker))

\* ------------------------------------------------------- enrichment task
Busy(p) == \E j \in 1..Len(jobs) : jobs[j].state = "Running" /\ jobs[j].proc = p

Logged(job, event) == Append(job.log, <<event, job.retries + 1>>)

\* HandleError with a ceiling one retry too high
HandleError_OneMoreRetry(job) ==
    LET logged == [job EXCEPT !.log = Logged(job, "task_error"),
                              !.pc = "idle", !.proc = 0,
                              !.fetched = <<>>, !.passed = <<>>]
    IN IF job.retries > max_retries
       THEN [logged EXCEPT !.state = "Failed"]
       ELSE [logged EXCEPT !.state = "Retrying", !.retries = @ + 1,
                           !.countdown = default_retry_delay]

\* the except branch: log task_error, then self.retry(exc=exc). Celery
\* schedules the retry while request.retries + 1 <= max_retries; beyond it,
\* since exc is given, retry re-raises exc itself and not
\* MaxRetriesExceededError, so the inner except clause is not entered
HandleError(job) ==
    LET logged == [job EXCEPT !.log = Logged(job, "task_error"),
                              !.pc = "idle", !.proc = 0,
                              !.fetched = <<>>, !.passed = <<>>]
    IN IF job.retries + 1 > max_retries
       THEN [logged EXCEPT !.state = "Failed"]
       ELSE [logged EXCEPT !.state = "Retrying", !.retries = @ + 1,
                           !.countdown = default_retry_delay]

\* Truncate keeping one label too many
Truncate_OffByOne(labels) == SubSeq(labels, 1, Min(LabelLimit + 1, Len(labels)))

\* labels = labels[:50]
Truncate(labels) == SubSeq(labels, 1, Min(LabelLimit, Len(labels)))

\* TaskStart that never redelivers a retried message
TaskStart_QueuedOnly(j, p) ==
    /\ j \in 1..Len(jobs)
    /\ jobs[j].state = "Queued"
    /\ ~Busy(p)
    /\ jobs' = [jobs EXCEPT ![j] =
                  [@ EXCEPT !.state = "Running", !.proc = p, !.pc = "started",
                            !.wrote = "none", !.sent = <<>>,
                            !.log = Logged(jobs[j], "task_started")]]
    /\ UNCHANGED <<cache, last_calls, call, plex, lastReq, resp, ncalls,
                   wcall, health, pcall>>

\* a worker process takes the message and enters async_update_labels
TaskStart(j, p) ==
    /\ j \in 1..Len(jobs)
    /\ \/ jobs[j].state = "Queued"
       \/ jobs[j].state = "Retrying" /\ jobs[j].countdown = 0
    /\ ~Busy(p)
    /\ jobs' = [jobs EXCEPT ![j] =
                  [@ EXCEPT !.state = "Running", !.proc = p, !.pc = "started",
                            !.wrote = "none", !.sent = <<>>,
                            !.log = Logged(jobs[j], "task_started")]]
    /\ UNCHANGED <<cache, last_calls, call, plex, lastReq, resp, ncalls,
                   wcall, health, pcall>>

\* answer: whether the GET, if one was issued, came back with a 2xx status
Observe(p, imdb_id, r, o) ==
    [made |-> TRUE, proc |-> p, id |-> imdb_id,
     raised |-> r.raised, val |-> r.val, http |-> r.http, paused |-> r.paused,
     failure |-> r.failure,
     answer |-> IF ~r.http THEN "none"
                ELSE IF o.kind \in NoResponse THEN "fail" ELSE "2xx"]

\* AfterFetch that carries on with an empty list
AfterFetch_EmptyGoesOn(job, r) ==
    IF r.raised
    THEN HandleError(job)
    ELSE [job EXCEPT !.pc = "fetched", !.fetched = r.val,
                     !.passed = Truncate(r.val)]

\* if not labels: raise ValueError; else labels = labels[:50]
AfterFetch(job, r) ==
    IF r.raised \/ Len(r.val) = 0
    THEN HandleError(job)
    ELSE [job EXCEPT !.pc = "fetched", !.fetched = r.val,
                     !.passed = Truncate(r.val)]

\* labels = get_imdb_keywords(imdb_id) and what follows up to the Writer
TaskFetch(j, outcomes) ==
    /\ j \in 1..Len(jobs)
    /\ jobs[j].state = "Running" /\ jobs[j].pc = "started"
    /\ \E o \in outcomes, p \in {jobs[j].proc} :
       \E f \in {get_imdb_keywords(cache[p], last_calls[p], jobs[j].imdb_id, o)} :
         LET d == IF f.r.paused THEN RateLimitPause ELSE 0
         IN /\ jobs' = [AgeJobs(jobs, d) EXCEPT ![j] = AfterFetch(jobs[j], f.r)]
            /\ cache' = [cache EXCEPT ![p] = f.cache]
            /\ last_calls' =
                  [AgeWindows(last_calls, d) EXCEPT ![p] = f.r.last_calls]
            /\ call' = Observe(p, jobs[j].imdb_id, f.r, o)
    /\ UNCHANGED <<plex, lastReq, resp, ncalls, wcall, health, pcall>>

\* SetLabels that keeps the labels an item already has
SetLabels_KeepsFirst(px, item, labels) ==
    IF \E i \in 1..Len(px) : px[i].item = item
    THEN px
    ELSE Append(px, [item |-> item, labels |-> labels])

\* what a 2xx PUT leaves on the media server
SetLabels(px, item, labels) ==
    IF \E i \in 1..Len(px) : px[i].item = item
    THEN [i \in 1..Len(px) |->
            IF px[i].item = item THEN [item |-> item, labels |-> labels]
            ELSE px[i]]
    ELSE Append(px, [item |-> item, labels |-> labels])

\* AfterWrite that does not look at what the Writer returned
AfterWrite_IgnoresFailure(job, ok) ==
    [job EXCEPT !.log = Logged(job, "task_completed"),
                !.state = "Succeeded", !.pc = "idle", !.proc = 0,
                !.result = [status |-> "success",
                            count |-> Len(job.passed),
                            labels |-> job.passed]]

\* if not success: raise Exception; else task_completed and the result
AfterWrite(job, ok) ==
    IF ok
    THEN [job EXCEPT !.log = Logged(job, "task_completed"),
                     !.state = "Succeeded", !.pc = "idle", !.proc = 0,
                     !.result = [status |-> "success",
                                 count |-> Len(job.passed),
                                 labels |-> job.passed]]
    ELSE HandleError(job)

\* success = update_plex_labels(rating_key, labels) and what follows
TaskWrite(j, outcomes) ==
    /\ j \in 1..Len(jobs)
    /\ jobs[j].state = "Running" /\ jobs[j].pc = "fetched"
    /\ \E o \in outcomes :
       \E w \in {update_plex_labels(jobs[j].rating_key,
                                    PyTags(jobs[j].passed), o)} :
       \E put \in {[jobs[j] EXCEPT !.sent = w.sent,
                                   !.wrote = IF w.ok THEN "true" ELSE "false"]} :
            /\ jobs' = [jobs EXCEPT ![j] = AfterWrite(put, w.ok)]
            /\ plex' = IF w.ok THEN SetLabels(plex, str(jobs[j].rating_key), w.sent)
                       ELSE plex
    /\ UNCHANGED <<cache, last_calls, call, lastReq, resp, ncalls, wcall,
                   health, pcall>>

\* --------------------------------------------------------------- requests
ID_A == <<"t", "t", "0", "1", "1", "1", "1", "6", "1">>
ID_B == <<"t", "t", "1", "2", "3", "4", "5", "6", "7">>
ID_SHORT == <<"t", "t", "1", "2", "3">>
ID_XX == <<"x", "x", "1", "2", "3", "4", "5", "6", "7">>
ID_5 == <<"t", "t", "1", "2", "3", "4", "5">>
ID_LONG == <<"t", "t", "1", "2", "3", "4", "5", "6", "7", "8", "9">>
RK_123 == <<"1", "2", "3">>
RK_456 == <<"4", "5", "6">>
RK_12A == <<"1", "2", "a">>
RK_SUP == <<"1", "sup2">>

\* a key that the JSON object does not have
Absent == [type |-> "absent", val |-> <<>>]
Present(e) == e.v.type # "absent"
MkDict(kvs) == PDict(SelectSeq(kvs, Present))

ImdbUri(id) == PStr(IMDB_PREFIX \o id)
TmdbUri == PStr(<<"t", "m", "d", "b", ":", "/", "/", "1">>)
GuidEntry(id) == MkDict(<<[k |-> "id", v |-> id]>>)

Metadata(guid, rating_key, title) ==
    MkDict(<<[k |-> "Guid", v |-> guid], [k |-> "ratingKey", v |-> rating_key],
             [k |-> "title", v |-> title]>>)
Payload(event, metadata) ==
    MkDict(<<[k |-> "event", v |-> event], [k |-> "Metadata", v |-> metadata]>>)

GoodGuid(id) == PList(<<GuidEntry(ImdbUri(id))>>)
GoodWebhook(id, rk) ==
    WebhookReq(TRUE, TRUE,
               Payload(PStr(LIBRARY_NEW), Metadata(GoodGuid(id), PStr(rk), Absent)))

\* the requests of the whole-pipeline specification
SpecWebhookReqs ==
    {GoodWebhook(ID_A, RK_123),
     WebhookReq(TRUE, TRUE,
                Payload(PStr(LIBRARY_UPDATE),
                        Metadata(GoodGuid(ID_A), PStr(RK_123), Absent)))}
SpecManualReqs ==
    {ManualReq(TRUE, TRUE, MkDict(<<[k |-> "imdb_id", v |-> PStr(ID_A)]>>), RK_123),
     ManualReq(TRUE, TRUE, MkDict(<<[k |-> "imdb_id", v |-> PStr(ID_SHORT)]>>),
               RK_123)}

\* the requests of the intake specification
Guids ==
    {Absent, PInt(5), PStr(<<"x">>), PList(<<>>), GoodGuid(ID_A),
     PList(<<GuidEntry(TmdbUri), GuidEntry(ImdbUri(ID_B))>>),
     PList(<<GuidEntry(ImdbUri(ID_SHORT)), GuidEntry(ImdbUri(ID_B))>>),
     PList(<<PStr(<<"x">>), GuidEntry(ImdbUri(ID_A))>>),
     PList(<<GuidEntry(PInt(7)), GuidEntry(ImdbUri(ID_A))>>),
     PList(<<GuidEntry(Absent), GuidEntry(ImdbUri(ID_A))>>),
     GoodGuid(ID_XX), GoodGuid(ID_5),
     GoodGuid(ID_A \o IMDB_PREFIX \o <<"x">>)}
RatingKeys ==
    {Absent, PNone, PStr(<<>>), PStr(RK_123), PStr(RK_12A), PInt(123), PInt(0),
     PStr(RK_SUP)}
Titles == {PNone, PStr(<<" ", "<", "b", ">", ";">>)}
Metadatas ==
    {Absent, PNone, PStr(<<"x">>)} \cup
    {Metadata(g, r, Absent) : g \in Guids, r \in RatingKeys} \cup
    {Metadata(GoodGuid(ID_A), PStr(RK_123), t) : t \in Titles}
WebhookDatas ==
    {PNone, PInt(0), PStr(<<"x">>), PList(<<PInt(1)>>), PDict(<<>>)} \cup
    {Payload(PStr(LIBRARY_NEW), m) : m \in Metadatas} \cup
    {Payload(e, Metadata(GoodGuid(ID_A), PStr(RK_123), Absent)) :
        e \in {Absent, PInt(1), PStr(LIBRARY_UPDATE)}}
WebhookReqs ==
    {WebhookReq(FALSE, FALSE, PNone), WebhookReq(TRUE, FALSE, PNone)} \cup
    {WebhookReq(TRUE, TRUE, d) : d \in WebhookDatas}

ManualIds ==
    {Absent, PNone, PStr(<<>>), PStr(ID_A), PStr(ID_B), PStr(ID_SHORT),
     PStr(ID_XX), PStr(ID_5), PStr(ID_LONG), PInt(5), PList(<<PStr(ID_A)>>)}
ManualDatas ==
    {PNone, PList(<<>>)} \cup
    {MkDict(<<[k |-> "imdb_id", v |-> id]>>) : id \in ManualIds}
ManualReqs ==
    {ManualReq(FALSE, TRUE, MkDict(<<[k |-> "imdb_id", v |-> PStr(ID_A)]>>),
               RK_123),
     ManualReq(TRUE, FALSE, PNone, RK_123)} \cup
    {ManualReq(TRUE, TRUE, d, key) :
        d \in ManualDatas, key \in {RK_123, RK_12A, RK_SUP}}

\* ---------------------------------------------------------- specifications
\* the whole pipeline: both endpoints, the worker processes and the clock
Next ==
    \/ Webhook(SpecWebhookReqs, {BrokerUp})
    \/ Manual(SpecManualReqs, {BrokerUp})
    \/ \E j \in 1..MaxJobs, p \in Procs : TaskStart(j, p)
    \/ \E j \in 1..MaxJobs : TaskFetch(j, FetchOutcomes)
    \/ \E j \in 1..MaxJobs : TaskWrite(j, PutOutcomes)
    \/ Tick({default_retry_delay})

Spec == Init /\ [][Next]_vars

\* the pipeline under fair scheduling, with one upstream outcome of each
\* kind of effect: nothing recorded, recorded and cached, recorded and
\* raised, tags
LiveFetchOutcomes ==
    {Upstream("timeout", <<>>), Upstream("noscript", <<>>),
     Upstream("emptyscript", <<>>), Upstream("ok", Tags(2))}
LivePutOutcomes == {"ok2xx", "timeout"}

Work ==
    \/ \E j \in 1..MaxJobs, p \in Procs : TaskStart(j, p)
    \/ \E j \in 1..MaxJobs : TaskFetch(j, LiveFetchOutcomes)
    \/ \E j \in 1..MaxJobs : TaskWrite(j, LivePutOutcomes)
    \/ Tick({default_retry_delay})

LiveNext ==
    \/ Webhook(SpecWebhookReqs, {BrokerUp})
    \/ Manual(SpecManualReqs, {BrokerUp})
    \/ Work

\* the worker pool and the clock do not halt while a step of theirs is
\* possible; the HTTP handlers are under no obligation
FairSpec == Init /\ [][LiveNext]_vars /\ WF_vars(Work)

\* the pipeline fed with pages whose keyword texts are empty, blank or padded
BlankPage == <<Tag(1), <<>>, <<" ">>, <<" ", "k", " ">>>>
SpacePage == <<<<" ">>>>
PageOutcomes ==
    {Upstream("ok", BlankPage), Upstream("ok", SpacePage),
     Upstream("ok", Tags(2)), Upstream("timeout", <<>>)}

PageNext ==
    \/ Webhook(SpecWebhookReqs, {BrokerUp})
    \/ Manual(SpecManualReqs, {BrokerUp})
    \/ \E j \in 1..MaxJobs, p \in Procs : TaskStart(j, p)
    \/ \E j \in 1..MaxJobs : TaskFetch(j, PageOutcomes)
    \/ \E j \in 1..MaxJobs : TaskWrite(j, LivePutOutcomes)
    \/ Tick({default_retry_delay})

PageSpec == Init /\ [][PageNext]_vars

\* the three routes, with the requests of the whole-pipeline specification
HttpNext ==
    \/ Webhook(SpecWebhookReqs, Brokers)
    \/ Manual(SpecManualReqs, Brokers)
    \/ Health

HttpSpec == Init /\ [][HttpNext]_vars

\* the Label Writer alone, called directly with arguments of every shape
WriteKeys ==
    {PStr(RK_123), PStr(RK_12A), PStr(RK_SUP), PStr(<<>>), PNone, PInt(123),
     PInt(0)}
WriteLabels ==
    {PNone, PList(<<>>), PStr(<<"k">>), PDict(<<>>), PInt(3),
     PyTags(Tags(2)), PyTags(BlankPage), PyTags(SpacePage),
     PList(<<PNone>>), PList(<<PInt(0), PStr(<<>>)>>),
     PList(<<PNone, PInt(7), PList(<<PStr(Tag(1))>>), PStr(Tag(1))>>)}

DirectWrite ==
    /\ \E rating_key \in WriteKeys, labels \in WriteLabels, o \in PutOutcomes :
       \E w \in {update_plex_labels(rating_key, labels, o)} :
          /\ wcall' = [made |-> TRUE, rating_key |-> rating_key,
                       labels |-> labels, outcome |-> o, ok |-> w.ok,
                       put |-> w.put, sent |-> w.sent]
          /\ plex' = IF w.ok THEN SetLabels(plex, str(rating_key), w.sent)
                     ELSE plex
    /\ UNCHANGED <<jobs, cache, last_calls, call, lastReq, resp, ncalls,
                   health, pcall>>

WriteNext == DirectWrite

WriteSpec == Init /\ [][WriteNext]_vars

\* the Fetcher alone, called directly in a worker process whose rate window
\* already holds the calls of earlier fetches
FetchIds ==
    {PStr(ID_A), PStr(ID_B), PStr(ID_SHORT), PStr(<<>>), PNone, PInt(5),
     PList(<<>>)}
Fresh(n) == [i \in 1..n |-> 0]
InitWindows == {Fresh(0), Fresh(RATE_LIMIT_CALLS - 1), Fresh(RATE_LIMIT_CALLS)}

FetchInit ==
    /\ jobs = <<>>
    /\ cache = [p \in Procs |-> <<>>]
    /\ last_calls \in [Procs -> InitWindows]
    /\ call = NoCall
    /\ plex = <<>>
    /\ lastReq = NoReq
    /\ resp = NoResp
    /\ ncalls = 0
    /\ wcall = NoPut
    /\ health = NoHealth
    /\ pcall = NoPure

DirectCall(p) ==
    /\ ncalls < MaxCalls
    /\ \E imdb_id \in FetchIds, o \in FetchOutcomes :
       \E f \in {get_imdb_keywords(cache[p], last_calls[p], imdb_id, o)} :
         LET d == IF f.r.paused THEN RateLimitPause ELSE 0
         IN /\ cache' = [cache EXCEPT ![p] = f.cache]
            /\ last_calls' =
                  [AgeWindows(last_calls, d) EXCEPT ![p] = f.r.last_calls]
            /\ call' = Observe(p, imdb_id, f.r, o)
            /\ jobs' = AgeJobs(jobs, d)
    /\ ncalls' = ncalls + 1
    /\ UNCHANGED <<plex, lastReq, resp, wcall, health, pcall>>

FetchNext ==
    \/ \E p \in Procs : DirectCall(p)
    \/ Tick({RATE_LIMIT_PERIOD})

FetchSpec == FetchInit /\ [][FetchNext]_vars

\* two jobs for one item on the queue, and two worker processes
RaceProcs == {1, 2}
RaceJobs == <<NewJob(PStr(ID_A), PStr(RK_123)), NewJob(PStr(ID_A), PStr(RK_123))>>
RaceFetchOutcomes == {Upstream("ok", Tags(1)), Upstream("ok", Tags(2))}

RaceInit ==
    /\ jobs = RaceJobs
    /\ cache = [p \in RaceProcs |-> <<>>]
    /\ last_calls = [p \in RaceProcs |-> <<>>]
    /\ call = NoCall
    /\ plex = <<>>
    /\ lastReq = NoReq
    /\ resp = NoResp
    /\ ncalls = 0
    /\ wcall = NoPut
    /\ health = NoHealth
    /\ pcall = NoPure

RaceNext ==
    \/ \E j \in 1..Len(RaceJobs), p \in RaceProcs : TaskStart(j, p)
    \/ \E j \in 1..Len(RaceJobs) : TaskFetch(j, RaceFetchOutcomes)
    \/ \E j \in 1..Len(RaceJobs) : TaskWrite(j, LivePutOutcomes)
    \/ Tick({default_retry_delay})

RaceSpec == RaceInit /\ [][RaceNext]_vars

\* the validators and sanitise_string alone, called directly
IdChars == {"1", "a", "sup2"}
Tails == UNION {[1..n -> IdChars] : n \in 0..MaxIdDigits}
IdStrings ==
    {head \o tail : head \in {TT, <<"x", "x">>, <<"t">>, <<>>}, tail \in Tails}
       \cup {ID_A, ID_B, ID_SHORT, ID_XX, ID_5, ID_LONG}
KeyValues ==
    {PStr(t) : t \in Tails} \cup
    {PNone, PInt(0), PInt(123), PStr(RK_123), PStr(RK_12A),
     PStr(<<"a", "b", "c">>)}
Rep(ch, n) == [i \in 1..n |-> ch]
XssInput ==
    <<"<", "s", "c", "r", "i", "p", "t", ">", "a", "l", "e", "r", "t", "(",
      "\"", "x", "s", "s", "\"", ")", "<", "/", "s", "c", "r", "i", "p", "t",
      ">">>
SanStrings ==
    UNION {[1..n -> {"a", " ", "<", ";"}] : n \in 0..3} \cup
    {Rep("a", n) : n \in {MaxSanitised - 1, MaxSanitised, MaxSanitised + 1,
                          2 * MaxSanitised}} \cup
    {<<"<">> \o Rep("a", MaxSanitised) \o <<"b">>,
     <<" ">> \o Rep("a", MaxSanitised) \o <<"b">>,
     Rep("a", MaxSanitised - 1) \o <<"'", ">", "b", "c">>,
     XssInput}
SanValues == {PStr(t) : t \in SanStrings} \cup {PNone, PInt(0), PInt(123)}

PureCall(fn, arg, ok, text) ==
    /\ pcall' = [fn |-> fn, arg |-> arg, ok |-> ok, text |-> text]
    /\ UNCHANGED <<jobs, cache, last_calls, call, plex, lastReq, resp, ncalls,
                   wcall, health>>

CallValidateImdbId ==
    \E s \in IdStrings :
       PureCall("validate_imdb_id", PStr(s), validate_imdb_id(PStr(s)), <<>>)
CallValidateRatingKey ==
    \E k \in KeyValues :
       PureCall("validate_rating_key", k, validate_rating_key(k), <<>>)
CallSanitise ==
    \E v \in SanValues :
       PureCall("sanitise_string", v, TRUE, sanitise_string(v))

PureNext == CallValidateImdbId \/ CallValidateRatingKey \/ CallSanitise

PureSpec == Init /\ [][PureNext]_vars

\* the two endpoints alone, over requests of every shape
IntakeNext ==
    \/ Webhook(WebhookReqs, Brokers)
    \/ Manual(ManualReqs, Brokers)

IntakeSpec == Init /\ [][IntakeNext]_vars

\* ------------------------------------------------- claims: enrichment task
Count(log, event) == Cardinality({i \in 1..Len(log) : log[i][1] = event})
Executions(job) == Count(job.log, "task_started")
Terminal(job) == job.state \in {"Succeeded", "Failed"}
LastEntry(job) == job.log[Len(job.log)]

C2_FinalFailureLogged ==
    \A j \in 1..Len(jobs) :
       /\ jobs[j].state = "Failed" =>
            /\ Count(jobs[j].log, "task_failed") = 1
            /\ LastEntry(jobs[j])[1] = "task_failed"
            /\ jobs[j].log[Len(jobs[j].log) - 1][1] = "task_error"
       /\ jobs[j].state = "Succeeded" => Count(jobs[j].log, "task_failed") = 0

\* C4: an attempt returns the success result iff the Fetcher returned a
\* non-empty list and the Writer returned true; an empty (or raising) fetch
\* and a false write each end the attempt in the except branch, with
\* task_error logged and the job retrying or failed, never with a result
FetchStep(j) == jobs[j].pc = "started" /\ jobs'[j].pc # "started"
WriteStep(j) == jobs[j].pc = "fetched" /\ jobs'[j].pc # "fetched"
RetryPath(j) ==
    /\ jobs'[j].state \in {"Retrying", "Failed"}
    /\ jobs'[j].result.status = "none"
    /\ jobs'[j].log[Len(jobs'[j].log)] = <<"task_error", jobs[j].retries + 1>>
C4_SuccessIffFetchedAndWritten ==
    [][\A j \in 1..Len(jobs) :
         /\ FetchStep(j) =>
              IF call'.raised \/ Len(call'.val) = 0
              THEN RetryPath(j)
              ELSE jobs'[j].state = "Running" /\ jobs'[j].pc = "fetched"
         /\ WriteStep(j) =>
              IF jobs'[j].wrote = "true"
              THEN jobs'[j].state = "Succeeded" /\
                   jobs'[j].result.status = "success"
              ELSE jobs'[j].wrote = "false" /\ RetryPath(j)
         /\ (jobs'[j].state = "Succeeded" /\ jobs[j].state # "Succeeded") =>
              WriteStep(j) /\ Len(jobs[j].fetched) > 0 /\ jobs'[j].wrote = "true"
      ]_vars

C4_Witness ==
    \E j \in 1..Len(jobs) :
       /\ jobs[j].state = "Succeeded" /\ jobs[j].retries > 0
       /\ Count(jobs[j].log, "task_error") = jobs[j].retries

\* C5: under fair scheduling every enqueued job eventually is Succeeded or
\* Failed, and a job in one of these states is never touched again
C5_EveryJobTerminates ==
    /\ \A j \in 1..MaxJobs :
         (Len(jobs) >= j) ~> (Len(jobs) >= j /\ Terminal(jobs[j]))
    /\ [][\A j \in 1..Len(jobs) : Terminal(jobs[j]) => jobs'[j] = jobs[j]]_vars

C5_Witness ==
    \E j \in 1..Len(jobs) :
       jobs[j].state = "Failed" /\ Count(jobs[j].log, "task_error") > 1

\* the lifecycle edges C25 lists, and the most executions a job can get
Edges ==
    {<<"Queued", "Running">>, <<"Running", "Succeeded">>,
     <<"Running", "Retrying">>, <<"Retrying", "Running">>,
     <<"Running", "Failed">>}
Ceiling == max_retries + 1
AttemptFailed(a, b) == b.log = Append(a.log, <<"task_error", a.retries + 1>>)

\* C25: a job changes state only along Queued->Running, Running->Succeeded,
\* Running->Retrying, Retrying->Running and Running->Failed; it enters
\* Retrying only on a failed attempt whose number is below the ceiling, and
\* a failed attempt at the ceiling goes to Failed; every entry into Running
\* logs an attempt number one above the previous one, starting at 1
C25_Lifecycle ==
    [][/\ \A j \in 1..Len(jobs) :
            LET a == jobs[j]
                b == jobs'[j]
            IN /\ a.state # b.state => <<a.state, b.state>> \in Edges
               /\ (a.state # "Retrying" /\ b.state = "Retrying") =>
                     AttemptFailed(a, b) /\ a.retries + 1 < Ceiling
               /\ (AttemptFailed(a, b) /\ a.retries + 1 >= Ceiling) =>
                     b.state = "Failed"
               /\ (a.state # "Running" /\ b.state = "Running") =>
                     b.log = Append(a.log, <<"task_started", Executions(a) + 1>>)
       /\ \A j \in (Len(jobs) + 1)..Len(jobs') :
            jobs'[j].state = "Queued" /\ Executions(jobs'[j]) = 0]_vars

C25_Witness ==
    \E j \in 1..Len(jobs) :
       /\ jobs[j].state = "Retrying"
       /\ Executions(jobs[j]) = Ceiling - 1

\* C26: within an attempt task_started is logged first, then the Fetcher is
\* called once, then the Writer is called, exactly once, only if the fetch
\* was non-empty, then task_completed is logged; an attempt whose fetch was
\* empty never calls the Writer and a failing attempt never logs
\* task_completed
C26_StepOrder ==
    [][\A j \in 1..Len(jobs) :
          LET a == jobs[j]
              b == jobs'[j]
              completed == Count(b.log, "task_completed") >
                              Count(a.log, "task_completed")
              written == a.wrote = "none" /\ b.wrote # "none"
          IN /\ (a.pc # "started" /\ b.pc = "started") =>
                   /\ a.pc = "idle" /\ b.wrote = "none"
                   /\ b.log = Append(a.log, <<"task_started", a.retries + 1>>)
             /\ (a.pc # "fetched" /\ b.pc = "fetched") =>
                   a.pc = "started" /\ Len(b.fetched) > 0 /\ b.log = a.log
             /\ (a.pc = "started" /\ b.pc = "idle") =>
                   AttemptFailed(a, b) /\ b.wrote = "none"
             /\ written =>
                   a.pc = "fetched" /\ Len(a.fetched) > 0 /\ b.pc = "idle"
             /\ (a.pc = "fetched" /\ b.pc # "fetched") => written
             /\ (a.wrote # "none" /\ b.wrote # a.wrote) => b.pc = "started"
             /\ completed =>
                   /\ written /\ b.wrote = "true" /\ b.state = "Succeeded"
                   /\ b.log = Append(a.log, <<"task_completed", a.retries + 1>>)
             /\ (written /\ b.wrote = "false") => AttemptFailed(a, b)]_vars

C26_Witness ==
    \E j \in 1..Len(jobs) :
       /\ jobs[j].state = "Succeeded" /\ jobs[j].wrote = "true"
       /\ jobs[j].log = <<<<"task_started", 1>>, <<"task_error", 1>>,
                          <<"task_started", 2>>, <<"task_completed", 2>>>>

\* the labels the media server holds for an item
LabelsOn(px, item) ==
    IF \E i \in 1..Len(px) : px[i].item = item
    THEN px[CHOOSE i \in 1..Len(px) : px[i].item = item].labels
    ELSE <<>>
PutAnswered2xx(j) == jobs[j].wrote = "none" /\ jobs'[j].wrote = "true"

\* C30: two jobs for the same item are not serialised: a queued job can be
\* started on any idle worker process whatever the other job is doing, and
\* every PUT answered 2xx replaces the labels of the item, so that the
\* item carries the labels of the last successful PUT
C30_LastWriteWins ==
    /\ [](\A j \in 1..Len(jobs), p \in DOMAIN cache :
             (jobs[j].state = "Queued" /\ ~Busy(p)) => ENABLED TaskStart(j, p))
    /\ [][/\ \A j \in 1..Len(jobs) :
               PutAnswered2xx(j) =>
                  LabelsOn(plex', str(jobs[j].rating_key)) = jobs'[j].sent
          /\ (\A j \in 1..Len(jobs) : ~PutAnswered2xx(j)) => plex' = plex]_vars

\* both jobs in a worker process at once, each about to PUT its own list
C30_Witness ==
    /\ Len(jobs) = 2
    /\ jobs[1].rating_key = jobs[2].rating_key
    /\ jobs[1].state = "Running" /\ jobs[2].state = "Running"
    /\ jobs[1].pc = "fetched" /\ jobs[2].pc = "fetched"
    /\ jobs[1].proc # jobs[2].proc
    /\ jobs[1].passed # jobs[2].passed

\* C10: the list handed to the Writer is the first min(n, 50) of the n tags
\* the Fetcher returned, in order; the success result carries that list and
\* its length
C10_FirstFiftyInOrder ==
    \A j \in 1..Len(jobs) :
       LET job == jobs[j]
           n == Len(job.fetched)
       IN /\ (job.pc = "fetched" \/ job.state = "Succeeded") =>
               /\ Len(job.passed) = Min(n, 50)
               /\ \A i \in 1..Len(job.passed) : job.passed[i] = job.fetched[i]
          /\ Len(job.passed) <= 50
          /\ job.state = "Succeeded" =>
               /\ job.result.labels = job.passed
               /\ job.result.count = Len(job.passed)

C10_Witness ==
    \E j \in 1..Len(jobs) :
       /\ jobs[j].state = "Succeeded"
       /\ Len(jobs[j].fetched) > 50
       /\ jobs[j].result.count = 50

\* C11 as stated: a tag list handed by the task to the Label Writer holds no
\* empty string, whatever list the Fetcher returned
C11_NoEmptyTagHandedOver ==
    \A j \in 1..Len(jobs) :
       jobs[j].pc = "fetched" =>
          \A i \in 1..Len(jobs[j].passed) : jobs[j].passed[i] # <<>>

\* C15: the step that answers 202 leaves the new job Queued, not yet taken
\* by any worker, and carries its task id; no later step of the job (start,
\* fetch, write, retry, failure) or of the clock changes the response
C15_ResponseBeforeTask ==
    [][/\ Len(jobs') = Len(jobs) + 1 =>
             /\ resp'.status = 202 /\ resp'.task_id = Len(jobs')
             /\ jobs' = Append(jobs, NewJob(resp'.imdb_id, resp'.rating_key))
             /\ jobs'[Len(jobs')].state = "Queued"
             /\ jobs'[Len(jobs')].log = <<>>
       /\ (Len(jobs') = Len(jobs) /\ jobs' # jobs) =>
             (resp' = resp /\ lastReq' = lastReq)]_vars

C15_Witness ==
    /\ resp.status = 202 /\ resp.task_id \in 1..Len(jobs)
    /\ jobs[resp.task_id].state = "Failed"

\* C16: each service is reported from its own probe (celery connected iff
\* the ping raised nothing, plex connected iff the probe succeeded, neither
\* left unknown), overall is healthy iff both are connected, the HTTP status
\* is 200 iff healthy and 500 otherwise; a ping failure alone gives 500 with
\* plex connected
C16_HealthFromOwnProbes ==
    health.made =>
       /\ health.services.celery =
             (IF health.ping = PingOk THEN "connected" ELSE "error")
       /\ health.services.plex =
             (IF health.probe = "ok2xx" THEN "connected" ELSE "error")
       /\ health.overall = "healthy" <=>
             (health.services.celery = "connected" /\
              health.services.plex = "connected")
       /\ health.http = (IF health.overall = "healthy" THEN 200 ELSE 500)
       /\ (health.ping # PingOk /\ health.probe = "ok2xx") =>
             (health.http = 500 /\ health.services.plex = "connected")

C16_Witness ==
    /\ health.made /\ health.ping # PingOk /\ health.probe = "ok2xx"
    /\ health.http = 500 /\ health.services.plex = "connected"

\* a text with none of the characters < > ' " ; and at most 1000 characters
Clean(t) ==
    Len(t) <= MaxSanitised /\ \A i \in 1..Len(t) : t[i] \notin HarmfulChars

\* C17 as stated: whatever the webhook answers, the title in the response
\* (field and message) and in every log event plex_webhook emitted is free
\* of the characters < > ' " ; and at most 1000 characters long
C17_TitleSanitisedEverywhere ==
    (lastReq.route = "webhook" /\ resp.status # 0) =>
       /\ Clean(resp.title)
       /\ resp.status = 202 => Clean(resp.message.args[1])
       /\ \A i \in 1..Len(resp.events) : Clean(resp.events[i].title)

\* C18 as stated: a 500 carries a generic message, so that two requests
\* answered 500 one after the other get the same message whatever the
\* texts of the exceptions behind them
C18_GenericInternalError ==
    [][(resp.status = 500 /\ resp'.status = 500) =>
          resp'.message = resp.message]_vars

\* -------------------------------------------------- claims: label writer
\* the labels that are left when each is trimmed and the empty ones dropped
Trimmed(labels) == [i \in 1..Len(labels) |-> strip(str(labels[i]))]
NotEmptyString(t) == t # <<>>
Survivors(labels) == SelectSeq(Trimmed(SelectSeq(labels, KeptLabel)), NotEmptyString)

\* C12 as stated: every value sent in the PUT is a non-empty trimmed string,
\* whitespace-only tags are dropped like the empty ones, and when no tag
\* survives no PUT is issued and the result is false
C12_OnlyNonEmptyTrimmedSent ==
    (wcall.made /\ wcall.labels.type = "list") =>
       /\ wcall.put =>
             \A i \in 1..Len(wcall.sent) :
                wcall.sent[i] # <<>> /\ strip(wcall.sent[i]) = wcall.sent[i]
       /\ Survivors(wcall.labels.val) = <<>> => (~wcall.put /\ ~wcall.ok)

\* C13: for a valid item ref and a list that survives normalisation the PUT
\* is issued and the result is true iff the answer was 2xx; timeout,
\* connection failure and non-2xx give false
C13_TrueIffPut2xx ==
    (/\ wcall.made
     /\ validate_rating_key(wcall.rating_key)
     /\ wcall.labels.type = "list"
     /\ NormaliseLabels(wcall.labels.val) # <<>>) =>
       /\ wcall.put
       /\ wcall.ok <=> wcall.outcome = "ok2xx"
       /\ wcall.outcome \in {"timeout", "connerr", "non2xx"} => ~wcall.ok

C13_Witness ==
    /\ wcall.made /\ wcall.put /\ ~wcall.ok
    /\ wcall.outcome = "non2xx"
    /\ Len(wcall.sent) = 2

\* a non-empty string of decimal digits, taken on the string form
DecimalKey(k) ==
    /\ Truthy(k)
    /\ \A i \in 1..Len(str(k)) : str(k)[i] \in DecDigits

\* C14 as stated: no PUT and the result false when the item ref is not a
\* non-empty string of decimal digits, or the tags argument is empty or not
\* a list
C14_RejectsWithoutPut ==
    (/\ wcall.made
     /\ \/ ~DecimalKey(wcall.rating_key)
        \/ wcall.labels.type # "list"
        \/ wcall.labels.val = <<>>) => (~wcall.put /\ ~wcall.ok)

\* ------------------------------------------------------- claims: fetcher
CallStep == ncalls' # ncalls
SameIdAgain == call.made /\ call'.proc = call.proc /\ call'.id = call.id

\* C3 as stated: only successful extractions are cached; after a fetch for a
\* valid id that ended in a handled failure, the next call for the same id
\* in the same process issues a new HTTP GET
C3_FailuresNotCached ==
    [][(/\ CallStep /\ SameIdAgain
        /\ validate_imdb_id(call.id)
        /\ call.failure /\ ~call.raised) => call'.http]_vars

\* C8 as stated: whatever the id and the upstream outcome, get_imdb_keywords
\* returns a list and raises nothing, and the list of a failure is empty
C8_NeverRaises ==
    call.made => (~call.raised /\ (call.failure => call.val = <<>>))

\* C9: a call that follows a call for the same id that returned, in the same
\* process, returns the same list with no GET, no pause and the rate window
\* unchanged
C9_SecondCallIsCacheHit ==
    [][(CallStep /\ SameIdAgain /\ ~call.raised) =>
          /\ ~call'.raised
          /\ call'.val = call.val
          /\ ~call'.http
          /\ ~call'.paused
          /\ last_calls' = last_calls]_vars

C9_Witness ==
    /\ call.made /\ ~call.raised /\ ~call.http
    /\ validate_imdb_id(call.id)
    /\ Len(call.val) > 0
    /\ is_rate_limited(last_calls[call.proc])

\* ----------------------------------------------------------- claims: health
\* the four failures C29 tells apart
ProbeClass(o) == IF o \in {"ok2xx", "401", "404", "timeout"} THEN o ELSE "other"

\* C29: the probe gives (true, success message) for a 2xx answer and (false,
\* message) otherwise, with pairwise distinct messages for unauthorized, not
\* found, timeout and any other failure; every failing probe marks the plex
\* service error and the overall health unhealthy
C29_ProbeMessages ==
    [][health'.made =>
         /\ health'.probe = "ok2xx" =>
               /\ health'.services.plex = "connected"
               /\ health'.plex_message = "Connected to Plex server successfully"
         /\ health'.probe # "ok2xx" =>
               /\ health'.services.plex = "error"
               /\ health'.overall = "unhealthy" /\ health'.http = 500
               /\ health'.plex_message # "Connected to Plex server successfully"
         /\ (health.made /\ ProbeClass(health.probe) # ProbeClass(health'.probe)) =>
               health.plex_message # health'.plex_message]_vars

C29_Witness ==
    /\ health.made /\ health.ping = PingOk /\ health.probe = "404"
    /\ health.plex_message = "Plex server not found"
    /\ health.overall = "unhealthy"

\* ------------------------------------------- claims: validators, sanitiser
AllDecimal(t) == \A i \in 1..Len(t) : t[i] \in DecDigits

\* C21 as stated: validate_imdb_id(s) is true exactly when s starts with tt,
\* is at least 7 characters long and every character after the prefix is a
\* decimal digit
C21_PrefixLengthDecimalDigits ==
    pcall.fn = "validate_imdb_id" =>
       (pcall.ok <=>
          /\ startswith(pcall.arg.val, TT)
          /\ Len(pcall.arg.val) >= 7
          /\ AllDecimal(SubSeq(pcall.arg.val, 3, Len(pcall.arg.val))))

\* C24 as stated: validate_rating_key(k) is true exactly when k is non-empty
\* and its string form consists only of decimal digits
C24_NonEmptyDecimalDigits ==
    pcall.fn = "validate_rating_key" =>
       (pcall.ok <=>
          /\ Truthy(pcall.arg)
          /\ Len(str(pcall.arg)) > 0
          /\ AllDecimal(str(pcall.arg)))

\* the characters C23 lists
Listed == {"<", ">", "'", "\"", ";"}
NotListed(ch) == ch \notin Listed
Without(t) == SelectSeq(t, NotListed)

\* C23: sanitise_string returns at most 1000 characters, none of them one of
\* < > ' " ; and the result is the stripped string form of the input with
\* those characters removed, cut to its first 1000 characters; None gives
\* the empty string
C23_SanitisedText ==
    pcall.fn = "sanitise_string" =>
       /\ Len(pcall.text) <= 1000
       /\ \A i \in 1..Len(pcall.text) : pcall.text[i] \notin Listed
       /\ pcall.arg = PNone => pcall.text = <<>>
       /\ pcall.arg # PNone =>
             LET whole == Without(strip(str(pcall.arg)))
             IN pcall.text = SubSeq(whole, 1, Min(1000, Len(whole)))

\* a 2000-character input comes back with exactly 1000 characters
C23_Witness ==
    /\ pcall.fn = "sanitise_string"
    /\ Len(pcall.arg.val) = 2000
    /\ Len(pcall.text) = 1000

\* the cache c holds the empty list for the id
CachedEmpty(c, id) == \E i \in 1..Len(c) : c[i].key = id /\ c[i].value = <<>>
FetchStepOf(j) == jobs[j].pc = "started" /\ jobs'[j].pc # "started"

\* C31: a fetch for a valid id that ends in a handled failure leaves the
\* empty list in the cache of the worker process, and every later attempt
\* for that id run in that process while the entry is there, the retries of
\* the same job included, gets the empty list with no GET, whatever the
\* content source would answer by then, and fails at the fetch step
C31_FailureSticksInProcess ==
    [][\A j \in 1..Len(jobs) :
          FetchStepOf(j) =>
             LET p == jobs[j].proc
                 id == jobs[j].imdb_id
             IN /\ (call'.http /\ call'.failure /\ ~call'.raised) =>
                      CachedEmpty(cache'[p], id)
                /\ CachedEmpty(cache[p], id) =>
                      /\ ~call'.http /\ ~call'.raised /\ call'.val = <<>>
                      /\ last_calls'[p] = last_calls[p]
                      /\ AttemptFailed(jobs[j], jobs'[j])
                      /\ jobs'[j].wrote = "none"
                      /\ CachedEmpty(cache'[p], id)]_vars

\* a job abandoned after four attempts of which the last made no GET
C31_Witness ==
    \E j \in 1..Len(jobs) :
       /\ jobs[j].state = "Failed" /\ Executions(jobs[j]) = max_retries + 1
       /\ call.made /\ call.id = jobs[j].imdb_id
       /\ ~call.http /\ call.val = <<>>
       /\ CachedEmpty(cache[call.proc], call.id)

\* a call that gets past the cache and the validation
FreshValid == validate_imdb_id(call'.id) /\ ~CacheHas(cache[call'.proc], call'.id)
RecentCalls(lc) == Cardinality({i \in 1..Len(lc) : lc[i] < 60})

\* C27: for a valid, uncached id the Fetcher pauses, once and for 2 seconds,
\* exactly when the window holds at least 10 timestamps of the last 60
\* seconds, and issues the GET either way: a full window never makes a
\* fetch be skipped
C27_SoftThrottle ==
    [][(CallStep /\ FreshValid) =>
          /\ call'.http
          /\ call'.paused <=> RecentCalls(last_calls[call'.proc]) >= 10
          /\ \A i \in 1..RecentCalls(last_calls[call'.proc]) :
                last_calls'[call'.proc][i] =
                   Pruned(last_calls[call'.proc])[i] +
                      (IF call'.paused THEN 2 ELSE 0)]_vars

\* an 11th GET within the 60 seconds, answered and recorded
C27_Witness ==
    /\ call.made /\ call.paused /\ call.http /\ call.answer = "2xx"
    /\ RecentCalls(last_calls[call.proc]) > 10

\* a step in which the Fetcher ran, called directly or by a job
FetcherRan ==
    \/ CallStep
    \/ \E j \in 1..Len(jobs) : jobs[j].pc = "started" /\ jobs'[j].pc # "started"
\* the window w as it is d seconds later, entries past the period dropped
Later(w, d) == Pruned(Age(w, d))
SameTimestamps(before, after) ==
    \E d \in {0, RateLimitPause, RATE_LIMIT_PERIOD, default_retry_delay} :
       Later(after, 0) = Later(before, d)

\* C28: the Fetcher appends a timestamp to the window exactly when its GET
\* came back 2xx, even if the body then fails to parse; a GET that ends in
\* a timeout, a connection error or a non-2xx status appends nothing; a call
\* with an invalid id issues no GET and leaves the window untouched; no
\* step other than the Fetcher's changes the timestamps in any window
C28_WindowRecordsAnswers ==
    [][/\ FetcherRan =>
            LET before == last_calls[call'.proc]
                after == last_calls'[call'.proc]
            IN /\ call'.answer = "2xx" <=>
                     /\ Len(after) = Len(Pruned(before)) + 1
                     /\ after[Len(after)] = 0
                     /\ SameTimestamps(before, SubSeq(after, 1, Len(after) - 1))
               /\ call'.answer = "fail" =>
                     Len(after) = Len(Pruned(before)) /\ SameTimestamps(before, after)
               /\ call'.answer = "none" => after = before
               /\ ~validate_imdb_id(call'.id) => ~call'.http /\ after = before
               /\ \A q \in DOMAIN last_calls \ {call'.proc} :
                     SameTimestamps(last_calls[q], last_calls'[q])
       /\ ~FetcherRan =>
            \A q \in DOMAIN last_calls :
               /\ Len(last_calls'[q]) = Len(last_calls[q])
               /\ SameTimestamps(last_calls[q], last_calls'[q])]_vars

\* a 2xx page that does not parse is recorded all the same
C28_Witness ==
    /\ call.made /\ call.answer = "2xx" /\ call.failure /\ ~call.raised
    /\ last_calls[call.proc] = <<0>>

\* -------------------------------------------------------- claims: intake
Handled(route) ==
    /\ lastReq'.route = route
    /\ lastReq' # lastReq \/ resp' # resp \/ Len(jobs') # Len(jobs)

MetadataOf(req) == DictGet(req.data, "Metadata", PDict(<<>>))

\* the conditions C6 lists
WebhookAccepts(req) ==
    /\ req.has_payload /\ req.parses
    /\ req.data.type = "dict" /\ Len(req.data.val) > 0
    /\ HasKey(req.data, "event")
    /\ DictGet(req.data, "event", PNone).type = "str"
    /\ DictGet(req.data, "event", PNone).val = LIBRARY_NEW
    /\ extract_imdb_id(MetadataOf(req)).type = "str"
    /\ HasKey(MetadataOf(req), "ratingKey")
    /\ validate_rating_key(DictGet(MetadataOf(req), "ratingKey", PNone))

\* the Guid entries of a webhook request that got as far as the extraction
ReachedExtraction(req) ==
    /\ req.route = "webhook" /\ req.has_payload /\ req.parses
    /\ req.data.type = "dict" /\ Truthy(req.data)
    /\ DictGet(req.data, "event", PNone) = PStr(LIBRARY_NEW)
GuidEntries(req) ==
    LET guids == IF MetadataOf(req).type = "dict"
                 THEN DictGet(MetadataOf(req), "Guid", PList(<<>>))
                 ELSE PNone
    IN IF guids.type = "list" THEN guids.val ELSE <<>>
EntryId(e) == IF e.type = "dict" THEN DictGet(e, "id", PStr(<<>>)) ELSE PNone
Prefixed(e) == EntryId(e).type = "str" /\ startswith(EntryId(e).val, IMDB_PREFIX)
\* the id with the prefix taken off
Stripped(e) == SubSeq(EntryId(e).val, Len(IMDB_PREFIX) + 1, Len(EntryId(e).val))
First(S) == CHOOSE i \in S : \A k \in S : i <= k
PrefixedAt(es) == {i \in 1..Len(es) : Prefixed(es[i])}
\* the entries whose id, cut at the next occurrence of the prefix, validates
ValidAt(es) ==
    {i \in PrefixedAt(es) : validate_imdb_id(PStr(SplitImdb(EntryId(es[i]).val)))}
\* a dict entry whose id is not a string makes the extraction give up
GivesUpAt(es) ==
    {i \in 1..Len(es) : es[i].type = "dict" /\ EntryId(es[i]).type # "str"}
KeyPasses(req) ==
    validate_rating_key(DictGet(MetadataOf(req), "ratingKey", PNone))
AcceptedOrBrokerDown == resp.status \in {202, 500}

\* C19 as stated: the id comes from the first Guid entry whose id starts
\* with imdb://, prefix stripped, and must validate; with no such entry, or
\* with that first entry invalid, the answer is 400, a later prefixed entry
\* not being used in its place
C19_FirstPrefixedEntryOnly ==
    (ReachedExtraction(lastReq) /\ resp.status # 0) =>
       LET es == GuidEntries(lastReq)
           ok == /\ PrefixedAt(es) # {}
                 /\ validate_imdb_id(PStr(Stripped(es[First(PrefixedAt(es))])))
       IN /\ ~ok => resp.status = 400
          /\ resp.status = 202 =>
                resp.imdb_id = PStr(Stripped(es[First(PrefixedAt(es))]))

\* C19 amended: the id comes from the first Guid entry whose id starts with
\* imdb:// and, cut at the next imdb:// if there is one, validates; prefixed
\* entries that fail validation before it are skipped. With no such entry,
\* or with a dict entry before it whose id is not a string, the answer is 400
C19_FirstValidPrefixedEntry ==
    (ReachedExtraction(lastReq) /\ resp.status # 0) =>
       LET es == GuidEntries(lastReq)
           usable == /\ ValidAt(es) # {}
                     /\ \A g \in GivesUpAt(es) : g > First(ValidAt(es))
       IN /\ ~usable => resp.status = 400
          /\ resp.status = 202 =>
                resp.imdb_id = PStr(SplitImdb(EntryId(es[First(ValidAt(es))]).val))
          /\ (usable /\ KeyPasses(lastReq)) => AcceptedOrBrokerDown

C19_Witness ==
    /\ ReachedExtraction(lastReq) /\ resp.status = 202
    /\ Len(GuidEntries(lastReq)) = 2
    /\ PrefixedAt(GuidEntries(lastReq)) = {1, 2}
    /\ ValidAt(GuidEntries(lastReq)) = {2}

\* C20 as stated: every identifier on the queue is tt followed by 7 or 8
\* decimal digits
C20_SevenOrEightDigits ==
    \A j \in 1..Len(jobs) :
       /\ jobs[j].imdb_id.type = "str"
       /\ startswith(jobs[j].imdb_id.val, TT)
       /\ Len(jobs[j].imdb_id.val) - 2 \in {7, 8}
       /\ \A i \in 3..Len(jobs[j].imdb_id.val) :
             jobs[j].imdb_id.val[i] \in DecDigits

\* the conditions under which C22 has the manual trigger answer 400
ManualId(req) == DictGet(req.data, "imdb_id", PNone)
ManualRejects(req) ==
    \/ ~req.parses
    \/ req.data.type # "dict"
    \/ ~validate_rating_key(PStr(req.url_key))
    \/ ~HasKey(req.data, "imdb_id")
    \/ ~Truthy(ManualId(req))
    \/ ManualId(req).type # "str"
    \/ ~validate_imdb_id(ManualId(req))
ManualEnqueued ==
    /\ resp'.status = 202
    /\ jobs' = Append(jobs, NewJob(ManualId(lastReq'), PStr(lastReq'.url_key)))
    /\ resp'.task_id = Len(jobs')
EnqueueFailed ==
    /\ resp'.status = 400
    /\ resp'.message = Msg("Request processing failed", <<>>)
    /\ \E f \in Faults : resp'.events = <<Ev("error", <<>>, f)>>
    /\ jobs' = jobs

C6_WebhookGate ==
    [][Handled("webhook") =>
         /\ resp'.status = 202 =>
              /\ WebhookAccepts(lastReq')
              /\ jobs' = Append(jobs,
                    NewJob(extract_imdb_id(MetadataOf(lastReq')),
                           DictGet(MetadataOf(lastReq'), "ratingKey", PNone)))
              /\ resp'.task_id = Len(jobs')
         /\ ~WebhookAccepts(lastReq') => resp'.status = 400
         /\ resp'.status # 202 => jobs' = jobs]_vars

C6_Witness ==
    /\ lastReq.route = "webhook" /\ resp.status = 202
    /\ resp.task_id = Len(jobs)
    /\ jobs[Len(jobs)].imdb_id = PStr(ID_B)

\* C7: every job on the queue, whichever endpoint enqueued it, carries an
\* imdb_id and a rating key that pass their validators
C7_OnlyValidatedIdsEnqueued ==
    \A j \in 1..Len(jobs) :
       /\ ~validate_imdb_id_raises(jobs[j].imdb_id)
       /\ validate_imdb_id(jobs[j].imdb_id)
       /\ validate_rating_key(jobs[j].rating_key)

C7_Witness ==
    /\ Len(jobs) > 0
    /\ lastReq.route = "manual" /\ resp.status = 202
    /\ resp.task_id = Len(jobs)
    /\ jobs[Len(jobs)].imdb_id = PStr(ID_B)

====
